---- MODULE Spec2Model ----
(***************************************************************************)
(* The benchmarking code of boosting.ipynb: score_and_time (the timed       *)
(* evaluator) and ml_benchmark (the benchmark runner).                      *)
(*                                                                          *)
(* Numbers.  A fold score is a rational s / ScoreDen with s in 0..ScoreDen. *)
(* round(x, 3) is kept as the integer 1000 * round(x, 3) (thousandths).     *)
(* The process-time clock counts microseconds, so that                      *)
(* datetime.timedelta(seconds = t_stop - t_start) is the integer difference.*)
(* Arithmetic is exact (rationals), not binary floating point.              *)
(***************************************************************************)
EXTENDS Integers, Sequences, FiniteSets, TLC

\* ---------------------------------------------------------------- bounds
\* largest fold count cv tried (the notebook always passes 10)
MaxCv == 3
\* fold scores are multiples of 1 / ScoreDen
ScoreDen == 2
\* the process-time clock stops advancing at MaxClock
MaxClock == 2
\* the external library is one of the behaviours 0..MaxLib
MaxLib == 2
\* the global numpy random generator has the states 0..MaxRng
MaxRng == 1

\* ------------------------------------------------------ program constants
\* round(..., 3)
Digits == 3

RECURSIVE Pow10(_)
Pow10(n) == IF n = 0 THEN 1 ELSE 10 * Pow10(n - 1)

Scale == Pow10(Digits)

VARIABLES
    pc,         \* position: idle, inst, t_start, cv, t_stop, reduce, ret, build, done, raised
    k,          \* roster entry being evaluated (1..5); 0 for a direct call of score_and_time
    X_dataset,  \* argument: the feature matrix (its identity)
    y_dataset,  \* argument: the labels
    cv,         \* argument: the fold count
    model,      \* local of ml_benchmark / argument of score_and_time
    l,          \* local of ml_benchmark: the rows collected so far
    t_start,    \* local of score_and_time
    scores,     \* local of score_and_time: the fold scores
    t_stop,     \* local of score_and_time
    part_l,     \* local / return value of score_and_time
    out,        \* return value of ml_benchmark
    clock,      \* the process-time clock
    np_random,  \* state of the global numpy random generator
    lib,        \* behaviour of the external library: key -> response
    log,        \* side effects of the current call, in order
    prev,       \* what a caller comparing two runs keeps of the last completed
                \* ml_benchmark call: its arguments and its two score columns
    nbpc,       \* the notebook: the line to execute next ("off": no notebook session)
    df_benchmark,               \* the notebook: df_benchmark_1..4, then df_benchmark_large
    df_benchmark_sorted,        \* the notebook: df_benchmark_1_sorted.., df_benchmark_large_sorted
    df_benchmark_total,         \* the notebook: df_benchmark_total
    df_benchmark_total_sorted,  \* the notebook: df_benchmark_total_sorted
    perc_inc                    \* the notebook: perc_inc, in hundredths of a percent

vars == <<pc, k, X_dataset, y_dataset, cv, model, l, t_start, scores, t_stop,
          part_l, out, clock, np_random, lib, log, prev,
          nbpc, df_benchmark, df_benchmark_sorted, df_benchmark_total,
          df_benchmark_total_sorted, perc_inc>>

\* the variables of the notebook's top level
nbvars == <<nbpc, df_benchmark, df_benchmark_sorted, df_benchmark_total,
            df_benchmark_total_sorted, perc_inc>>

\* ------------------------------------------------------------- the roster
rows_name == <<"DecisionTreeClassifier", "RandomForestClassifier", "AdaBoostClassifier",
               "GradientBoostingClassifier", "XGBoost">>

columns_name == <<"Approx. mean of scores", "Approx. variance of scores", "Processing time">>

\* An absent keyword argument is the empty sequence, a given one <<value>>.
DecisionTree == [cls |-> "DecisionTreeClassifier", n_estimators |-> <<>>,
                 max_depth |-> <<>>, random_state |-> <<0>>]

RandomForest == [cls |-> "RandomForestClassifier", n_estimators |-> <<50>>,
                 max_depth |-> <<2>>, random_state |-> <<0>>]

AdaBoost == [cls |-> "AdaBoostClassifier", n_estimators |-> <<50>>,
             max_depth |-> <<2>>, random_state |-> <<0>>]

GradientBoosting == [cls |-> "GradientBoostingClassifier", n_estimators |-> <<50>>,
                     max_depth |-> <<2>>, random_state |-> <<>>]

XGBoost == [cls |-> "XGBClassifier", n_estimators |-> <<50>>,
            max_depth |-> <<2>>, random_state |-> <<0>>]

\* a roster that lost its last entry
Roster_withoutXGBoost == <<DecisionTree, RandomForest, AdaBoost, GradientBoosting>>

\* the five models in the order ml_benchmark instantiates them
Roster == <<DecisionTree, RandomForest, AdaBoost, GradientBoosting, XGBoost>>

Models == {Roster[i] : i \in 1..Len(Roster)}

\* ------------------------------------------------------------ the inputs
Datasets == { [X |-> 1, y |-> <<0, 0, 1, 1>>],
              [X |-> 2, y |-> <<0, 0, 0, 1, 1, 1>>] }

CvSet == 2..MaxCv

FoldScores == 0..ScoreDen

ScoreSeqs(n) == [1..n -> FoldScores]

NoTable == [index |-> <<>>, columns |-> <<>>, data |-> <<>>]

\* the columns 'Approx. mean of scores' and 'Approx. variance of scores' of a table
ScoreColumns(df) == [i \in 1..Len(df.data) |-> <<df.data[i][1], df.data[i][2]>>]

NoPrev == [X |-> 0, y |-> <<>>, cv |-> 0, index |-> <<>>, rows |-> <<>>]

\* perc_inc not assigned yet
NoPerc == [kind |-> "none", value |-> 0]

\* no notebook session: the functions are called on their own
NbOff ==
    /\ nbpc = "off"
    /\ df_benchmark = <<>>
    /\ df_benchmark_sorted = <<>>
    /\ df_benchmark_total = NoTable
    /\ df_benchmark_total_sorted = NoTable
    /\ perc_inc = NoPerc

\* ----------------------------------------------------- the external library
\* Where the estimator draws its random numbers from: its own seed, or the
\* global generator in its current state when random_state is None.
Entropy(m, g) == IF m.random_state = <<>> THEN <<"global", g>> ELSE <<"seed", m.random_state[1]>>

Key(m, X, y, c, g) == <<m.cls, Entropy(m, g), X, y, c>>

ClsIdx(cls) == CHOOSE i \in 1..Len(Roster) : Roster[i].cls = cls

\* Behaviour h of the library on one key.  Behaviour 0 never raises; behaviour
\* h in 1..5 raises for the h-th estimator on the first dataset.
LibResponse(h, key) ==
    LET c == ClsIdx(key[1])
        e == IF key[2][1] = "global" THEN 1 + key[2][2] ELSE 0
        n == key[5]
    IN  IF h = c /\ key[3] = 1
        THEN [ok |-> FALSE, scores |-> <<>>]
        ELSE [ok |-> TRUE,
              scores |-> [i \in 1..n |-> (h + c * i + e * (i + 1) + key[3]) % (ScoreDen + 1)]]

Keys == { Key(m, d.X, d.y, c, g) : m \in Models, d \in Datasets, c \in CvSet, g \in 0..MaxRng }

Library(h) == [key \in Keys |-> LibResponse(h, key)]

Responses(n) == {[ok |-> FALSE, scores |-> <<>>]} \cup {[ok |-> TRUE, scores |-> s] : s \in ScoreSeqs(n)}

\* model_selection.cross_val_score(model, X_dataset, y_dataset, cv=cv)
cross_val_score(m, X, y, c) == lib[Key(m, X, y, c, np_random)]

\* an estimator without a seed consumes the global generator
ConsumeRandom(m, g) == IF m.random_state = <<>> THEN (g + 1) % (MaxRng + 1) ELSE g

\* --------------------------------------------------------------- reduction
RECURSIVE Sum(_)
Sum(s) == IF s = <<>> THEN 0 ELSE Head(s) + Sum(Tail(s))

\* nearest integer to n / d (n >= 0, d > 0), a tie going to the even one
RoundDiv(n, d) ==
    LET q == n \div d
        r == n % d
    IN  IF 2 * r < d THEN q
        ELSE IF 2 * r > d THEN q + 1
        ELSE IF q % 2 = 0 THEN q ELSE q + 1

\* the largest f in lo..hi with f * f * b <= a, by bisection
RECURSIVE FloorSqrt(_, _, _, _)
FloorSqrt(a, b, lo, hi) ==
    IF lo >= hi THEN lo
    ELSE LET mid == (lo + hi + 1) \div 2
         IN  IF mid * mid * b <= a THEN FloorSqrt(a, b, mid, hi)
             ELSE FloorSqrt(a, b, lo, mid - 1)

\* nearest integer to sqrt(a / b) (a >= 0, b > 0), a tie going to the even one
RoundSqrt(a, b) ==
    LET f == FloorSqrt(a, b, 0, 2 * Scale)
        h == (2 * f + 1) * (2 * f + 1) * b
    IN  IF 4 * a < h THEN f
        ELSE IF 4 * a > h THEN f + 1
        ELSE IF f % 2 = 0 THEN f ELSE f + 1

\* the mean cut to three digits instead of rounded
mean_truncated(s) == (Scale * Sum(s)) \div (Len(s) * ScoreDen)

\* the mean taken over one fold too few
mean_overFewer(s) == RoundDiv(Scale * Sum(s), (Len(s) - 1) * ScoreDen)

\* round(scores.mean(), 3), in thousandths
mean(s) == RoundDiv(Scale * Sum(s), Len(s) * ScoreDen)

\* sum over the folds of (Len(s) * s[i] - Sum(s))^2: the squared deviations
\* from the mean, in units of 1 / (Len(s) * ScoreDen)^2
SqDev(s) == Sum([i \in 1..Len(s) |-> (Len(s) * s[i] - Sum(s)) * (Len(s) * s[i] - Sum(s))])

\* the standard deviation with Bessel's correction (ddof = 1)
std2_ddof1(s) == RoundSqrt(4 * Scale * Scale * (SqDev(s) \div Len(s)),
                           Len(s) * (Len(s) - 1) * ScoreDen * ScoreDen)

\* numpy's scores.std(): the square root of the mean squared deviation (ddof = 0).
\* round(scores.std()*2, 3), in thousandths
std2(s) == RoundSqrt(4 * Scale * Scale * (SqDev(s) \div Len(s)),
                     (Len(s) * ScoreDen) * (Len(s) * ScoreDen))

\* the difference taken the wrong way round
timedelta_reversed(start, stop) == start - stop

\* datetime.timedelta(seconds=t_stop-t_start), in microseconds
timedelta(start, stop) == stop - start

\* pd.DataFrame(l, index = rows_name, columns = columns_name)
DataFrame(data, index, columns) == [index |-> index, columns |-> columns, data |-> data]

\* -------------------------------------------------------------- the steps
Init ==
    /\ pc = "idle"
    /\ k = 0
    /\ X_dataset = 0
    /\ y_dataset = <<>>
    /\ cv = 0
    /\ model = DecisionTree
    /\ l = <<>>
    /\ t_start = 0
    /\ scores = <<>>
    /\ t_stop = 0
    /\ part_l = <<>>
    /\ out = NoTable
    /\ clock = 0
    /\ np_random \in 0..MaxRng
    /\ lib \in {Library(h) : h \in 0..MaxLib}
    /\ log = <<>>
    /\ prev = NoPrev
    /\ NbOff

\* the process consumes processor time
Tick ==
    /\ clock < MaxClock
    /\ clock' = clock + 1
    /\ UNCHANGED <<pc, k, X_dataset, y_dataset, cv, model, l, t_start, scores, t_stop,
                   part_l, out, np_random, lib, log, prev>>
    /\ UNCHANGED nbvars

\* ml_benchmark(X_dataset, y_dataset, cv): the three prints, l = []
Call(d, c) ==
    /\ pc \in {"idle", "done", "raised"}
    /\ pc' = "inst"
    /\ k' = 1
    /\ X_dataset' = d.X
    /\ y_dataset' = d.y
    /\ cv' = c
    /\ l' = <<>>
    /\ out' = NoTable
    /\ log' = <<"print", "print", "print">>
    /\ prev' = IF pc = "done" /\ k > 0
               THEN [X |-> X_dataset, y |-> y_dataset, cv |-> cv,
                     index |-> out.index, rows |-> ScoreColumns(out)]
               ELSE prev
    /\ UNCHANGED <<model, t_start, scores, t_stop, part_l, clock, np_random, lib>>
    /\ UNCHANGED nbvars

\* model = <the k-th classifier>(...)
Instantiate ==
    /\ pc = "inst"
    /\ model' = Roster[k]
    /\ pc' = "t_start"
    /\ UNCHANGED <<k, X_dataset, y_dataset, cv, l, t_start, scores, t_stop, part_l, out,
                   clock, np_random, lib, log, prev>>
    /\ UNCHANGED nbvars

\* the start timestamp read once, for the first classifier only
ReadStart_once ==
    /\ pc = "t_start"
    /\ t_start' = IF k <= 1 THEN clock ELSE t_start
    /\ scores' = <<>>
    /\ part_l' = <<>>
    /\ log' = Append(log, "process_time")
    /\ pc' = "cv"
    /\ UNCHANGED <<k, X_dataset, y_dataset, cv, model, l, t_stop, out, clock,
                   np_random, lib, prev>>
    /\ UNCHANGED nbvars

\* t_start = process_time()
ReadStart ==
    /\ pc = "t_start"
    /\ t_start' = clock
    /\ scores' = <<>>
    /\ part_l' = <<>>
    /\ log' = Append(log, "process_time")
    /\ pc' = "cv"
    /\ UNCHANGED <<k, X_dataset, y_dataset, cv, model, l, t_stop, out, clock,
                   np_random, lib, prev>>
    /\ UNCHANGED nbvars

\* the exception swallowed: the evaluation goes on with no scores
AfterCrossVal_swallow(r) == "t_stop"

\* the failed call tried again
AfterCrossVal_retry(r) == IF r.ok THEN "t_stop" ELSE "cv"

\* where control goes after the cross-validation call: an exception is not caught
AfterCrossVal(r) == IF r.ok THEN "t_stop" ELSE "raised"

\* a line printed between the two clock reads
CrossVal_printing ==
    /\ pc = "cv"
    /\ LET r == cross_val_score(model, X_dataset, y_dataset, cv)
       IN  /\ scores' = r.scores
           /\ pc' = AfterCrossVal(r)
           /\ log' = log \o <<"print", IF r.ok THEN "cross_val_score" ELSE "cross_val_score raised">>
    /\ np_random' = ConsumeRandom(model, np_random)
    /\ UNCHANGED <<k, X_dataset, y_dataset, cv, model, l, t_start, t_stop, part_l, out,
                   clock, lib, prev>>
    /\ UNCHANGED nbvars

\* scores = model_selection.cross_val_score(model, X_dataset, y_dataset, cv=cv)
CrossVal ==
    /\ pc = "cv"
    /\ LET r == cross_val_score(model, X_dataset, y_dataset, cv)
       IN  /\ scores' = r.scores
           /\ pc' = AfterCrossVal(r)
           /\ log' = Append(log, IF r.ok THEN "cross_val_score" ELSE "cross_val_score raised")
    /\ np_random' = ConsumeRandom(model, np_random)
    /\ UNCHANGED <<k, X_dataset, y_dataset, cv, model, l, t_start, t_stop, part_l, out,
                   clock, lib, prev>>
    /\ UNCHANGED nbvars

\* t_stop = process_time()
ReadStop ==
    /\ pc = "t_stop"
    /\ t_stop' = clock
    /\ log' = Append(log, "process_time")
    /\ pc' = "reduce"
    /\ UNCHANGED <<k, X_dataset, y_dataset, cv, model, l, t_start, scores, part_l, out,
                   clock, np_random, lib, prev>>
    /\ UNCHANGED nbvars

\* part_l = [round(scores.mean(), 3), round(scores.std()*2, 3), timedelta(...)]; return part_l
Return ==
    /\ pc = "reduce"
    /\ part_l' = <<mean(scores), std2(scores), timedelta(t_start, t_stop)>>
    /\ pc' = "ret"
    /\ UNCHANGED <<k, X_dataset, y_dataset, cv, model, l, t_start, scores, t_stop, out,
                   clock, np_random, lib, log, prev>>
    /\ UNCHANGED nbvars

\* the next classifier is evaluated on the other dataset
AppendRow_otherDataset ==
    /\ pc = "ret"
    /\ k > 0
    /\ l' = Append(l, part_l)
    /\ IF k < Len(Roster)
       THEN k' = k + 1 /\ pc' = "inst"
       ELSE k' = k /\ pc' = "build"
    /\ LET d == CHOOSE e \in Datasets : e.X # X_dataset
       IN  X_dataset' = d.X /\ y_dataset' = d.y
    /\ UNCHANGED <<cv, model, t_start, scores, t_stop, part_l, out,
                   clock, np_random, lib, log, prev>>
    /\ UNCHANGED nbvars

\* the triple put in front of the list instead of behind it
AppendRow_prepend ==
    /\ pc = "ret"
    /\ k > 0
    /\ l' = <<part_l>> \o l
    /\ IF k < Len(Roster)
       THEN k' = k + 1 /\ pc' = "inst"
       ELSE k' = k /\ pc' = "build"
    /\ UNCHANGED <<X_dataset, y_dataset, cv, model, t_start, scores, t_stop, part_l, out,
                   clock, np_random, lib, log, prev>>
    /\ UNCHANGED nbvars

\* l.append(score_and_time(...)), then the next classifier or the table
AppendRow ==
    /\ pc = "ret"
    /\ k > 0
    /\ l' = Append(l, part_l)
    /\ IF k < Len(Roster)
       THEN k' = k + 1 /\ pc' = "inst"
       ELSE k' = k /\ pc' = "build"
    /\ UNCHANGED <<X_dataset, y_dataset, cv, model, t_start, scores, t_stop, part_l, out,
                   clock, np_random, lib, log, prev>>
    /\ UNCHANGED nbvars

\* a line printed when the table is built
Build_printing ==
    /\ pc = "build"
    /\ out' = DataFrame(l, rows_name, columns_name)
    /\ pc' = "done"
    /\ log' = Append(log, "print")
    /\ UNCHANGED <<k, X_dataset, y_dataset, cv, model, l, t_start, scores, t_stop, part_l,
                   clock, np_random, lib, prev>>
    /\ UNCHANGED nbvars

\* out = pd.DataFrame(l, index = rows_name, columns = columns_name); return out
Build ==
    /\ pc = "build"
    /\ out' = DataFrame(l, rows_name, columns_name)
    /\ pc' = "done"
    /\ UNCHANGED <<k, X_dataset, y_dataset, cv, model, l, t_start, scores, t_stop, part_l,
                   clock, np_random, lib, log, prev>>
    /\ UNCHANGED nbvars

Next ==
    \/ Tick
    \/ \E d \in Datasets, c \in CvSet : Call(d, c)
    \/ Instantiate
    \/ ReadStart
    \/ CrossVal
    \/ ReadStop
    \/ Return
    \/ AppendRow
    \/ Build

Spec == Init /\ [][Next]_vars

\* ------------------------------------- score_and_time called on its own
InitEval ==
    /\ pc = "idle"
    /\ k = 0
    /\ X_dataset = 0
    /\ y_dataset = <<>>
    /\ cv = 0
    /\ model = DecisionTree
    /\ l = <<>>
    /\ t_start = 0
    /\ scores = <<>>
    /\ t_stop = 0
    /\ part_l = <<>>
    /\ out = NoTable
    /\ clock = 0
    /\ np_random \in 0..MaxRng
    /\ \E m \in Models, d \in Datasets, c \in CvSet :
          \E r \in Responses(c) : lib = (Key(m, d.X, d.y, c, np_random) :> r)
    /\ log = <<>>
    /\ prev = NoPrev
    /\ NbOff

\* score_and_time(model, X_dataset, y_dataset, cv), called directly
EvalCall(m, d, c) ==
    /\ pc \in {"idle", "raised"}
    /\ Key(m, d.X, d.y, c, np_random) \in DOMAIN lib
    /\ pc' = "t_start"
    /\ k' = 0
    /\ model' = m
    /\ X_dataset' = d.X
    /\ y_dataset' = d.y
    /\ cv' = c
    /\ log' = <<>>
    /\ UNCHANGED <<l, t_start, scores, t_stop, part_l, out, clock, np_random, lib, prev>>
    /\ UNCHANGED nbvars

\* the direct caller receives part_l
EvalDone ==
    /\ pc = "ret"
    /\ k = 0
    /\ pc' = "idle"
    /\ UNCHANGED <<k, X_dataset, y_dataset, cv, model, l, t_start, scores, t_stop, part_l,
                   out, clock, np_random, lib, log, prev>>
    /\ UNCHANGED nbvars

NextEval ==
    \/ Tick
    \/ \E m \in Models, d \in Datasets, c \in CvSet : EvalCall(m, d, c)
    \/ ReadStart
    \/ CrossVal
    \/ ReadStop
    \/ Return
    \/ EvalDone

SpecEval == InitEval /\ [][NextEval]_vars

\* ------------------------------------------------------------ the notebook
\* the number of tables summed in line 719
NumTables == 4

\* the argument of divide in line 720
Divisor == 4

\* The datasets of the notebook in the order of its cells: iris, digits, wine,
\* breast cancer and the generated large one.  X is the identity of the feature
\* matrix, y is abridged to the label values the cell prints.
NbDatasets == << [X |-> 3, y |-> <<0, 1, 2>>],
                 [X |-> 4, y |-> <<0, 1, 2, 3, 4, 5, 6, 7, 8, 9>>],
                 [X |-> 5, y |-> <<0, 1, 2>>],
                 [X |-> 6, y |-> <<0, 1>>],
                 [X |-> 7, y |-> <<0, 1, 2, 3, 4>>] >>

\* the fold count every cell passes (10 in the notebook), within the bound
NbCv == MaxCv

NbKeys == { Key(m, NbDatasets[i].X, NbDatasets[i].y, NbCv, g) :
                m \in Models, i \in 1..Len(NbDatasets), g \in 0..MaxRng }

NbLibrary(h) == [key \in NbKeys |-> LibResponse(h, key)]

\* the state of the global generator when the j-th roster entry is evaluated
RECURSIVE RngAt(_, _)
RngAt(j, g) == IF j <= 1 THEN g ELSE ConsumeRandom(Roster[j - 1], RngAt(j - 1, g))

\* what cross_val_score answers for the j-th roster entry of a run started with
\* the global generator in state g
RunResponse(j, d, c, g) == lib[Key(Roster[j], d.X, d.y, c, RngAt(j, g))]

\* ml_benchmark(X_dataset, y_dataset, cv) as a whole, for a run whose five
\* evaluations succeed and take the processor times durs
ml_benchmark(d, c, g, durs) ==
    DataFrame([j \in 1..Len(Roster) |->
                   <<mean(RunResponse(j, d, c, g).scores),
                     std2(RunResponse(j, d, c, g).scores),
                     durs[j]>>],
              rows_name, columns_name)

\* the position of a column
ColPos(df, by) == CHOOSE c \in 1..Len(df.columns) : df.columns[c] = by

\* the direction ignored: always the smallest value first
Precedes_ascendingOnly(df, c, ascending, j, i) ==
    \/ df.data[j][c] < df.data[i][c]
    \/ df.data[j][c] = df.data[i][c] /\ j < i

\* row j comes before row i in the sorted table: by value, equal values in
\* their original order (what the notebook's outputs show)
Precedes(df, c, ascending, j, i) ==
    \/ IF ascending THEN df.data[j][c] < df.data[i][c] ELSE df.data[j][c] > df.data[i][c]
    \/ df.data[j][c] = df.data[i][c] /\ j < i

\* the rows of df in sorted order, as positions in df
SortedOrder(df, c, ascending) ==
    [r \in 1..Len(df.data) |->
        CHOOSE i \in 1..Len(df.data) :
            Cardinality({j \in 1..Len(df.data) : Precedes(df, c, ascending, j, i)}) = r - 1]

\* df.sort_values(by=[by], ascending=ascending): a new table
sort_values(df, by, ascending) ==
    LET ord == SortedOrder(df, ColPos(df, by), ascending)
    IN  [df EXCEPT !.index = [r \in 1..Len(ord) |-> df.index[ord[r]]],
                   !.data = [r \in 1..Len(ord) |-> df.data[ord[r]]]]

\* the row of a table with a given label
Row(df, key) == df.data[CHOOSE r \in 1..Len(df.index) : df.index[r] = key]

\* the row labels in the order pandas gives the union of two unequal indexes
Alphabetical == <<"AdaBoostClassifier", "DecisionTreeClassifier",
                  "GradientBoostingClassifier", "RandomForestClassifier", "XGBoost">>

HasLabel(df, key) == \E r \in 1..Len(df.index) : df.index[r] = key

UnionIndex(a, b) ==
    IF a.index = b.index THEN a.index
    ELSE LET In(key) == HasLabel(a, key) \/ HasLabel(b, key)
         IN  SelectSeq(Alphabetical, In)

\* cells paired by row position instead of row label
add_positional(a, b) ==
    [index |-> a.index, columns |-> a.columns,
     data |-> [r \in 1..Len(a.index) |->
                  [c \in 1..Len(a.columns) |-> a.data[r][c] + b.data[r][c]]]]

\* a + b for two tables with the same labels: cells are paired by row label
add(a, b) ==
    LET idx == UnionIndex(a, b)
    IN  [index |-> idx, columns |-> a.columns,
         data |-> [r \in 1..Len(idx) |->
                      [c \in 1..Len(a.columns) |-> Row(a, idx[r])[c] + Row(b, idx[r])[c]]]]

\* df_1 + df_2 + ... + df_n, from the left
RECURSIVE SumTables(_)
SumTables(dfs) ==
    IF Len(dfs) = 1 THEN dfs[1]
    ELSE add(SumTables(SubSeq(dfs, 1, Len(dfs) - 1)), dfs[Len(dfs)])

\* the sum divided by the number of rows instead of the number of tables
divide_byRowCount(df, n) ==
    [index |-> df.index, columns |-> df.columns, data |-> df.data, divisor |-> Len(df.data)]

\* df.divide(n): every cell is the fraction data / divisor, kept exact
divide(df, n) == [index |-> df.index, columns |-> df.columns, data |-> df.data, divisor |-> n]

\* df[by]: one column of a table, by row position
Column(df, by) == [r \in 1..Len(df.data) |-> df.data[r][ColPos(df, by)]]

\* round(n / d, 2 digits already in n), a negative quotient rounded like its opposite
RoundQuotient(n, d) == IF n >= 0 THEN RoundDiv(n, d) ELSE 0 - RoundDiv(0 - n, d)

\* round((first - last) / last * 100, 2) in hundredths of a percent.  The cells
\* are numpy floats: a division by 0.0 does not raise, it gives inf, -inf or
\* (for 0.0 / 0.0) nan, with a warning.
Percentage(first, last) ==
    IF last = 0
    THEN [kind |-> IF first = 0 THEN "nan" ELSE IF first > 0 THEN "inf" ELSE "-inf",
          value |-> 0]
    ELSE [kind |-> "finite", value |-> RoundQuotient(100 * 100 * (first - last), last)]

\* the increase from the row named DecisionTreeClassifier to the row named
\* XGBoost, as the printed sentence words it
PercInc_namedRows(df) ==
    Percentage(Row(df, "XGBoost")[ColPos(df, "Approx. mean of scores")],
               Row(df, "DecisionTreeClassifier")[ColPos(df, "Approx. mean of scores")])

\* scores = df['Approx. mean of scores']
\* perc_inc = round((scores[0]-scores[4])/(scores[4])*100, 2)
\* (scores[0] and scores[4] on a column labelled by names: the first and the
\* fifth position, as the notebook's recorded outputs show)
PercInc(df) ==
    LET scores_column == Column(df, "Approx. mean of scores")
    IN  Percentage(scores_column[1], scores_column[5])

InitNb ==
    /\ pc = "idle"
    /\ k = 0
    /\ X_dataset = 0
    /\ y_dataset = <<>>
    /\ cv = 0
    /\ model = DecisionTree
    /\ l = <<>>
    /\ t_start = 0
    /\ scores = <<>>
    /\ t_stop = 0
    /\ part_l = <<>>
    /\ out = NoTable
    /\ clock = 0
    /\ np_random \in 0..MaxRng
    /\ lib \in {NbLibrary(h) : h \in 0..MaxLib}
    /\ log = <<>>
    /\ prev = NoPrev
    /\ nbpc = "benchmark"
    /\ df_benchmark = <<>>
    /\ df_benchmark_sorted = <<>>
    /\ df_benchmark_total = NoTable
    /\ df_benchmark_total_sorted = NoTable
    /\ perc_inc = NoPerc

\* dataset = ...; X_dataset = ...; y_dataset = ...
\* df_benchmark_i = ml_benchmark(X_dataset, y_dataset, 10)
BenchmarkLine(durs) ==
    /\ nbpc = "benchmark"
    /\ Len(df_benchmark) < Len(NbDatasets)
    /\ clock + Sum(durs) <= MaxClock
    /\ LET d == NbDatasets[Len(df_benchmark) + 1]
       IN  /\ \A j \in 1..Len(Roster) : RunResponse(j, d, NbCv, np_random).ok
           /\ X_dataset' = d.X
           /\ y_dataset' = d.y
           /\ cv' = NbCv
           /\ out' = ml_benchmark(d, NbCv, np_random, durs)
           /\ df_benchmark' = Append(df_benchmark, out')
    /\ clock' = clock + Sum(durs)
    /\ np_random' = RngAt(Len(Roster) + 1, np_random)
    /\ nbpc' = "sort"
    /\ UNCHANGED <<pc, k, model, l, t_start, scores, t_stop, part_l, lib, log, prev,
                   df_benchmark_sorted, df_benchmark_total, df_benchmark_total_sorted>>
    /\ UNCHANGED perc_inc

\* the table sorted in place (inplace=True) as well as returned
SortLine_inplace ==
    /\ nbpc = "sort"
    /\ LET sorted == sort_values(df_benchmark[Len(df_benchmark)], "Approx. mean of scores", FALSE)
       IN  /\ df_benchmark_sorted' = Append(df_benchmark_sorted, sorted)
           /\ df_benchmark' = [df_benchmark EXCEPT ![Len(df_benchmark)] = sorted]
    /\ nbpc' = IF Len(df_benchmark) = NumTables THEN "sum"
               ELSE IF Len(df_benchmark) = Len(NbDatasets) THEN "perc_inc_total"
               ELSE "benchmark"
    /\ UNCHANGED <<pc, k, X_dataset, y_dataset, cv, model, l, t_start, scores, t_stop,
                   part_l, out, clock, np_random, lib, log, prev,
                   df_benchmark_total, df_benchmark_total_sorted>>
    /\ UNCHANGED perc_inc

\* df_benchmark_i_sorted = df_benchmark_i.sort_values(by=['Approx. mean of scores'], ascending=False)
SortLine ==
    /\ nbpc = "sort"
    /\ df_benchmark_sorted' =
           Append(df_benchmark_sorted,
                  sort_values(df_benchmark[Len(df_benchmark)], "Approx. mean of scores", FALSE))
    /\ nbpc' = IF Len(df_benchmark) = NumTables THEN "sum"
               ELSE IF Len(df_benchmark) = Len(NbDatasets) THEN "perc_inc_total"
               ELSE "benchmark"
    /\ UNCHANGED <<pc, k, X_dataset, y_dataset, cv, model, l, t_start, scores, t_stop,
                   part_l, out, clock, np_random, lib, log, prev,
                   df_benchmark, df_benchmark_total, df_benchmark_total_sorted>>
    /\ UNCHANGED perc_inc

\* df_benchmark_total = (df_benchmark_1+df_benchmark_2+df_benchmark_3+df_benchmark_4)
SumLine ==
    /\ nbpc = "sum"
    /\ df_benchmark_total' = SumTables(SubSeq(df_benchmark, 1, NumTables))
    /\ nbpc' = "divide"
    /\ UNCHANGED <<pc, k, X_dataset, y_dataset, cv, model, l, t_start, scores, t_stop,
                   part_l, out, clock, np_random, lib, log, prev,
                   df_benchmark, df_benchmark_sorted, df_benchmark_total_sorted>>
    /\ UNCHANGED perc_inc

\* df_benchmark_total = df_benchmark_total.divide(4)
DivideLine ==
    /\ nbpc = "divide"
    /\ df_benchmark_total' = divide(df_benchmark_total, Divisor)
    /\ nbpc' = "sort_total"
    /\ UNCHANGED <<pc, k, X_dataset, y_dataset, cv, model, l, t_start, scores, t_stop,
                   part_l, out, clock, np_random, lib, log, prev,
                   df_benchmark, df_benchmark_sorted, df_benchmark_total_sorted>>
    /\ UNCHANGED perc_inc

\* df_benchmark_total_sorted = df_benchmark_total.sort_values(by=['Approx. mean of scores'], ascending=False)
SortTotalLine ==
    /\ nbpc = "sort_total"
    /\ df_benchmark_total_sorted' =
           sort_values(df_benchmark_total, "Approx. mean of scores", FALSE)
    /\ nbpc' = "benchmark"
    /\ UNCHANGED <<pc, k, X_dataset, y_dataset, cv, model, l, t_start, scores, t_stop,
                   part_l, out, clock, np_random, lib, log, prev,
                   df_benchmark, df_benchmark_sorted, df_benchmark_total>>
    /\ UNCHANGED perc_inc

\* scores = df_benchmark_total_sorted[...]; perc_inc = round(...); print(...)
PercIncTotalLine ==
    /\ nbpc = "perc_inc_total"
    /\ perc_inc' = PercInc(df_benchmark_total_sorted)
    /\ nbpc' = "perc_inc_large"
    /\ UNCHANGED <<pc, k, X_dataset, y_dataset, cv, model, l, t_start, scores, t_stop,
                   part_l, out, clock, np_random, lib, log, prev,
                   df_benchmark, df_benchmark_sorted, df_benchmark_total,
                   df_benchmark_total_sorted>>

\* scores = df_benchmark_large_sorted[...]; perc_inc = round(...); print(...)
PercIncLargeLine ==
    /\ nbpc = "perc_inc_large"
    /\ perc_inc' = PercInc(df_benchmark_sorted[Len(NbDatasets)])
    /\ nbpc' = "end"
    /\ UNCHANGED <<pc, k, X_dataset, y_dataset, cv, model, l, t_start, scores, t_stop,
                   part_l, out, clock, np_random, lib, log, prev,
                   df_benchmark, df_benchmark_sorted, df_benchmark_total,
                   df_benchmark_total_sorted>>

NextNb ==
    \/ \E durs \in [1..Len(Roster) -> 0..(MaxClock - clock)] : BenchmarkLine(durs)
    \/ SortLine
    \/ SumLine
    \/ DivideLine
    \/ SortTotalLine
    \/ PercIncTotalLine
    \/ PercIncLargeLine

SpecNb == InitNb /\ [][NextNb]_vars

\* ------------------------------------------------------------- the claims
CvCalls(lg) == Cardinality({i \in 1..Len(lg) : lg[i] \in {"cross_val_score", "cross_val_score raised"}})

HasRaised(lg) == \E i \in 1..Len(lg) : lg[i] = "cross_val_score raised"

\* n * (sum of squares) - (square of the sum): n^2 times the population variance
\* of the raw fold scores
VarNum(s) == Len(s) * Sum([i \in 1..Len(s) |-> s[i] * s[i]]) - Sum(s) * Sum(s)

\* r is the integer nearest to sqrt(a / b); of two equally near ones, the even one
NearestToSqrt(r, a, b) ==
    /\ r >= 0
    /\ (r > 0 => (2 * r - 1) * (2 * r - 1) * b <= 4 * a)
    /\ 4 * a <= (2 * r + 1) * (2 * r + 1) * b
    /\ (4 * a = (2 * r + 1) * (2 * r + 1) * b => r % 2 = 0)
    /\ (r > 0 /\ 4 * a = (2 * r - 1) * (2 * r - 1) * b => r % 2 = 0)

\* C1: a table returned by ml_benchmark has exactly five rows, keyed by the five
\* fixed classifier names in roster order, and exactly three columns, whatever
\* the dataset and the fold count.
C1_FiveRowsThreeColumns ==
    pc = "done" =>
        /\ out.index = <<"DecisionTreeClassifier", "RandomForestClassifier",
                         "AdaBoostClassifier", "GradientBoostingClassifier", "XGBoost">>
        /\ Len(out.data) = 5
        /\ \A i \in 1..Len(out.data) : Len(out.data[i]) = 3
        /\ Len(out.columns) = 3
        /\ Cardinality({out.columns[i] : i \in 1..Len(out.columns)}) = 3

\* C1 witness: a table returned for the larger dataset after one was returned
\* for the smaller dataset.
C1_Witness ==
    /\ pc = "done"
    /\ X_dataset = 2
    /\ cv = MaxCv
    /\ prev.X = 1
    /\ Len(prev.rows) = 5

\* C2 (as claimed): two completed ml_benchmark calls with the same features,
\* labels and fold count have identical mean and spread columns.
C2_SameInputsSameScores ==
    (pc = "done" /\ prev.X = X_dataset /\ prev.y = y_dataset /\ prev.cv = cv)
        => ScoreColumns(out) = prev.rows

\* C3 (as claimed): every model ml_benchmark evaluates carries a fixed random
\* seed, so none draws from the unseeded global generator.
C3_EveryModelSeeded ==
    (k > 0 /\ pc \in {"t_start", "cv"}) => Entropy(model, np_random)[1] = "seed"

\* C4 (as claimed): the spread returned by score_and_time is twice the sample
\* standard deviation (divisor: folds - 1) of the fold scores, rounded to 3 digits.
C4_SampleStd ==
    pc = "ret" =>
        NearestToSqrt(part_l[2], 4 * Scale * Scale * VarNum(scores),
                      cv * (cv - 1) * ScoreDen * ScoreDen)

\* C4 (amended): the spread returned by score_and_time is twice the population
\* standard deviation (divisor: the number of folds) of the fold scores, rounded
\* to 3 digits.
C4_PopulationStd ==
    pc = "ret" =>
        NearestToSqrt(part_l[2], 4 * Scale * Scale * VarNum(scores),
                      cv * cv * ScoreDen * ScoreDen)

\* C4 witness: a returned triple whose fold scores are not all equal.
C4_Witness ==
    /\ pc = "ret"
    /\ cv = MaxCv
    /\ part_l[2] > 0
    /\ part_l[2] < Scale

\* C5: the mean returned by score_and_time is the arithmetic mean of the cv fold
\* scores of the one cross-validation call, rounded to 3 digits.
C5_MeanOfFoldScores ==
    pc = "ret" =>
        /\ Len(scores) = cv
        /\ CvCalls(log) = 1
        /\ 2 * Scale * Sum(scores) - cv * ScoreDen <= 2 * part_l[1] * cv * ScoreDen
        /\ 2 * part_l[1] * cv * ScoreDen <= 2 * Scale * Sum(scores) + cv * ScoreDen

\* C5 witness: a returned mean that had to be rounded up.
C5_Witness ==
    /\ pc = "ret"
    /\ k = 0
    /\ part_l[1] * cv * ScoreDen > Scale * Sum(scores)

\* C6: once one evaluation of an ml_benchmark call has failed, the call has
\* failed with no table, the failing call was the k-th cross-validation call and
\* the last thing the run did, and only the k - 1 rows before it exist.
C6_NoPartialTable ==
    (k > 0 /\ HasRaised(log)) =>
        /\ pc = "raised"
        /\ out = NoTable
        /\ log[Len(log)] = "cross_val_score raised"
        /\ CvCalls(log) = k
        /\ Len(l) = k - 1

\* C6 witness: the second roster entry fails after the first one succeeded.
C6_Witness ==
    /\ pc = "raised"
    /\ k = 2
    /\ Len(l) = 1
    /\ out = NoTable

\* C7: in a call of score_and_time the cross-validation routine is invoked at
\* most once; when it raises, the call ends raised, right after that one
\* invocation, without reading the end timestamp and with no result triple.
C7_RaisePropagates ==
    k = 0 =>
        /\ CvCalls(log) <= 1
        /\ HasRaised(log) =>
              /\ pc = "raised"
              /\ part_l = <<>>
              /\ log = <<"process_time", "cross_val_score raised">>

\* C7 witness: a direct call of score_and_time that raised.
C7_Witness ==
    /\ pc = "raised"
    /\ k = 0
    /\ HasRaised(log)

\* the side effects of a complete run, one after another
SequentialLog ==
    <<"print", "print", "print">> \o
    [i \in 1..15 |-> IF i % 3 = 2 THEN "cross_val_score" ELSE "process_time"]

Outcome(e) == IF e = "cross_val_score raised" THEN "cross_val_score" ELSE e

\* C8: the five evaluations of one ml_benchmark call run one after another in
\* roster order: the side effects are start read, cross-validation, end read,
\* five times over; an evaluation's start timestamp is not before the previous
\* evaluation's end timestamp; a successful run made exactly five
\* cross-validation calls.
C8_Sequential ==
    k > 0 =>
        /\ Len(log) <= Len(SequentialLog)
        /\ \A i \in 1..Len(log) : Outcome(log[i]) = SequentialLog[i]
        /\ (pc \in {"cv", "t_stop"} /\ k > 1) => (l[k - 1][3] >= 0 /\ t_stop <= t_start)
        /\ (pc \in {"cv", "t_stop"}) => CvCalls(log) \in {k - 1, k}
        /\ pc = "done" => (CvCalls(log) = 5 /\ Len(log) = Len(SequentialLog))

\* C8 witness: the second evaluation started strictly after the first one ended,
\* and the first one took time.
C8_Witness ==
    /\ pc = "cv"
    /\ k = 2
    /\ l[1][3] > 0
    /\ t_start > t_stop

\* C9: score_and_time returns a mean in [0, 1] and a non-negative spread.
C9_MeanInUnitInterval ==
    pc = "ret" =>
        /\ part_l[1] >= 0
        /\ part_l[1] <= Scale
        /\ part_l[2] >= 0

\* C9 witness: a returned mean of exactly 1 over the largest fold count.
C9_Witness ==
    /\ pc = "ret"
    /\ k = 0
    /\ cv = MaxCv
    /\ part_l[1] = Scale

\* C10: each timestamp of score_and_time is the clock's value at its read, the
\* clock never goes back, and the returned duration is the end timestamp minus
\* the start timestamp of that call, hence not negative.
C10_Duration ==
    [][ /\ clock' >= clock
        /\ (pc = "t_start" /\ pc' = "cv") => t_start' = clock
        /\ (pc = "t_stop" /\ pc' = "reduce") => (t_stop' = clock /\ t_stop' >= t_start)
        /\ (pc = "reduce" /\ pc' = "ret") =>
              (part_l'[3] = t_stop - t_start /\ part_l'[3] >= 0) ]_vars

\* C10 witness: a returned duration that is positive.
C10_Witness ==
    /\ pc = "ret"
    /\ k = 0
    /\ part_l[3] > 0
    /\ part_l[3] = t_stop - t_start

\* the notebook has computed the average table (line 720)
Divided == nbpc = "sort_total" \/ df_benchmark_total_sorted # NoTable

\* the sum over the first n tables of the cell in row key, column c
RECURSIVE CellSum(_, _, _, _)
CellSum(dfs, n, key, c) ==
    IF n = 0 THEN 0 ELSE CellSum(dfs, n - 1, key, c) + Row(dfs[n], key)[c]

\* C11: the table obtained by summing the 4 benchmark tables and dividing by 4
\* has exactly the five classifier names as row labels, and each of its cells
\* (a fraction data / divisor) is the arithmetic mean of the 4 input cells with
\* the same row label and column.
C11_AverageIsCellMean ==
    Divided =>
        /\ Len(df_benchmark_total.index) = 5
        /\ {df_benchmark_total.index[r] : r \in 1..Len(df_benchmark_total.index)} =
               {"DecisionTreeClassifier", "RandomForestClassifier", "AdaBoostClassifier",
                "GradientBoostingClassifier", "XGBoost"}
        /\ Len(df_benchmark_total.data) = 5
        /\ \A r \in 1..Len(df_benchmark_total.data) :
              /\ Len(df_benchmark_total.data[r]) = 3
              /\ \A c \in 1..3 :
                    df_benchmark_total.data[r][c] * 4 =
                        df_benchmark_total.divisor *
                            CellSum(df_benchmark, 4, df_benchmark_total.index[r], c)

\* C11 witness: an average table with a row whose four mean scores are not all
\* equal and with a row whose summed durations are positive.
C11_Witness ==
    /\ Divided
    /\ \E r \in 1..5 : \E i, j \in 1..4 :
          Row(df_benchmark[i], rows_name[r])[1] # Row(df_benchmark[j], rows_name[r])[1]
    /\ \E r \in 1..5 : df_benchmark_total.data[r][3] > 0

\* how many entries of the log lg are the event e
Count(lg, e) == Cardinality({i \in 1..Len(lg) : lg[i] = e})

\* this step is the caller calling ml_benchmark
IsCall == pc \in {"idle", "done", "raised"} /\ pc' = "inst"

\* C12 (as claimed): a completed ml_benchmark call has produced no output.
C12_NoOutput == pc = "done" => Count(log, "print") = 0

\* C12 (amended): a completed ml_benchmark call has printed exactly three lines,
\* all before its first evaluation, read the clock ten times and called the
\* cross-validation routine five times, and has done nothing else; no step of
\* the call changes the arguments or the library, and the global random
\* generator changes only in a step that is a cross-validation call.
C12_ThreePrintsTenReadsFiveCalls ==
    /\ [](pc = "done" =>
            /\ Len(log) = 18
            /\ Count(log, "print") = 3
            /\ \A i \in 1..3 : log[i] = "print"
            /\ Count(log, "process_time") = 10
            /\ Count(log, "cross_val_score") = 5)
    /\ [][(k > 0 /\ ~IsCall) =>
            /\ lib' = lib
            /\ <<X_dataset', y_dataset', cv'>> = <<X_dataset, y_dataset, cv>>
            /\ (log' # log => \E e \in {"process_time", "cross_val_score",
                                        "cross_val_score raised"} : log' = Append(log, e))
            /\ (np_random' # np_random => CvCalls(log') = CvCalls(log) + 1)]_vars

\* C12 witness: a completed call, with its prints and its five cross-validation
\* calls, one of which draws from the global generator.
C12_Witness ==
    /\ pc = "done"
    /\ log[1] = "print"
    /\ CvCalls(log) = 5
    /\ ConsumeRandom(GradientBoosting, np_random) # np_random

\* C13: between the call of ml_benchmark and its end no step changes the
\* features, the labels or the fold count, and each of the five
\* cross-validation calls receives exactly these three arguments (its result is
\* the library's answer for them and the model under evaluation).
C13_DatasetNotMutated ==
    [][(k > 0 /\ ~IsCall) =>
          /\ X_dataset' = X_dataset
          /\ y_dataset' = y_dataset
          /\ cv' = cv
          /\ (CvCalls(log') = CvCalls(log) + 1 =>
                 scores' = lib[<<model.cls, Entropy(model, np_random),
                                 X_dataset, y_dataset, cv>>].scores)]_vars

\* C13 witness: a run on the larger dataset completed after a completed run on
\* the same dataset.
C13_Witness ==
    /\ pc = "done"
    /\ CvCalls(log) = 5
    /\ X_dataset = 2
    /\ prev.X = 2
    /\ prev.y = y_dataset

\* the class of the classifier each row is named after
ClassNamed(name) ==
    CASE name = "DecisionTreeClassifier" -> "DecisionTreeClassifier"
      [] name = "RandomForestClassifier" -> "RandomForestClassifier"
      [] name = "AdaBoostClassifier" -> "AdaBoostClassifier"
      [] name = "GradientBoostingClassifier" -> "GradientBoostingClassifier"
      [] name = "XGBoost" -> "XGBClassifier"

RosterNames ==
    <<"DecisionTreeClassifier", "RandomForestClassifier", "AdaBoostClassifier",
      "GradientBoostingClassifier", "XGBoost">>

\* the state of the global generator when a completed run started: the run
\* advanced it once
GeneratorBefore == (np_random + MaxRng) % (MaxRng + 1)

\* C15: during the k-th evaluation of an ml_benchmark call the model is the
\* classifier the k-th row is named after and k - 1 triples have been collected;
\* the triple score_and_time returns is appended as the k-th; the returned table
\* holds these triples row by row under the five names in roster order, so that
\* the scores of row i are those of the i-th classifier and of no other.
C15_RowHoldsItsModel ==
    /\ [](k > 0 /\ pc \in {"t_start", "cv", "t_stop", "reduce", "ret"} =>
            /\ model.cls = ClassNamed(RosterNames[k])
            /\ Len(l) = k - 1)
    /\ [][(k > 0 /\ pc = "ret" /\ pc' # "ret") => l' = Append(l, part_l)]_vars
    /\ [](pc = "done" =>
            /\ out.index = RosterNames
            /\ out.data = l
            /\ \A i \in 1..5 :
                  \E m \in Models :
                     /\ m.cls = ClassNamed(out.index[i])
                     /\ LET r == lib[<<m.cls, Entropy(m, GeneratorBefore),
                                       X_dataset, y_dataset, cv>>]
                        IN  /\ out.data[i][1] = mean(r.scores)
                            /\ out.data[i][2] = std2(r.scores))

\* C15 witness: a returned table in which two rows differ in their scores.
C15_Witness ==
    /\ pc = "done"
    /\ \E i, j \in 1..5 : out.data[i][1] # out.data[j][1]
    /\ \E i, j \in 1..5 : out.data[i][2] # out.data[j][2]

\* C16: in a call of score_and_time the clock is read first, then the
\* cross-validation routine is called, then the clock is read a second time;
\* nothing else happens in between and the scores are reduced only after the
\* second read, so a returned triple comes with exactly two clock reads around
\* one cross-validation call.
C16_TightTimingBoundary ==
    (k = 0 /\ pc # "idle") =>
        /\ pc = "t_start" => log = <<>>
        /\ pc = "cv" => log = <<"process_time">> /\ part_l = <<>>
        /\ pc = "t_stop" => log = <<"process_time", "cross_val_score">> /\ part_l = <<>>
        /\ pc = "reduce" =>
              log = <<"process_time", "cross_val_score", "process_time">> /\ part_l = <<>>
        /\ pc = "ret" =>
              /\ log = <<"process_time", "cross_val_score", "process_time">>
              /\ Len(part_l) = 3
        /\ pc = "raised" => log = <<"process_time", "cross_val_score raised">>

\* C16 witness: a returned triple whose two clock reads differ.
C16_Witness ==
    /\ k = 0
    /\ pc = "ret"
    /\ t_stop > t_start
    /\ Count(log, "process_time") = 2

\* C17: once ml_benchmark has returned a per-dataset table, no later line of the
\* notebook (sorting, summing, dividing) changes its row labels, its row order
\* or its cells, and no table is ever removed; a sorted table, once made, stays
\* as it is too: sorting and aggregation put their results in new tables.
C17_TablesNeverMutated ==
    [][/\ Len(df_benchmark') >= Len(df_benchmark)
       /\ \A i \in 1..Len(df_benchmark) : df_benchmark'[i] = df_benchmark[i]
       /\ Len(df_benchmark_sorted') >= Len(df_benchmark_sorted)
       /\ \A i \in 1..Len(df_benchmark_sorted) :
             df_benchmark_sorted'[i] = df_benchmark_sorted[i]
       /\ (Len(df_benchmark') > Len(df_benchmark) =>
             df_benchmark'[Len(df_benchmark')] = out')]_vars

\* C17 witness: the notebook at its end, all five tables sorted and the first
\* four averaged, with a table whose sorted copy has another row order.
C17_Witness ==
    /\ nbpc = "end"
    /\ Len(df_benchmark) = 5
    /\ Len(df_benchmark_sorted) = 5
    /\ Divided
    /\ \E i \in 1..4 : df_benchmark_sorted[i].index # df_benchmark[i].index

\* b holds the rows of a, each under its label, largest mean first
SortedPermutation(a, b) ==
    /\ b.columns = a.columns
    /\ Len(b.index) = Len(a.index)
    /\ Len(b.data) = Len(a.data)
    /\ Len(b.index) = Len(b.data)
    /\ {b.index[r] : r \in 1..Len(b.index)} = {a.index[r] : r \in 1..Len(a.index)}
    /\ Cardinality({b.index[r] : r \in 1..Len(b.index)}) = 5
    /\ \A r \in 1..Len(b.index) :
          \E q \in 1..Len(a.index) : a.index[q] = b.index[r] /\ a.data[q] = b.data[r]
    /\ \A r \in 1..(Len(b.data) - 1) : b.data[r][1] >= b.data[r + 1][1]

\* C18: every sorted table of the notebook, per dataset or of the average,
\* holds the same five labels as the table it was sorted from, each label with
\* its three cells unchanged, and its mean-score column never increases from
\* one row to the next.
C18_SortIsDescendingPermutation ==
    /\ \A i \in 1..Len(df_benchmark_sorted) :
          SortedPermutation(df_benchmark[i], df_benchmark_sorted[i])
    /\ df_benchmark_total_sorted # NoTable =>
          /\ SortedPermutation(df_benchmark_total, df_benchmark_total_sorted)
          /\ df_benchmark_total_sorted.divisor = df_benchmark_total.divisor

\* C18 witness: the average table and a per-dataset table both sorted into
\* another row order, the sorted average with distinct and with equal means.
C18_Witness ==
    /\ df_benchmark_total_sorted # NoTable
    /\ df_benchmark_total_sorted.index # df_benchmark_total.index
    /\ \E i \in 1..Len(df_benchmark_sorted) :
          df_benchmark_sorted[i].index # df_benchmark[i].index
    /\ \E r \in 1..4 : df_benchmark_total_sorted.data[r][1] >
                           df_benchmark_total_sorted.data[r + 1][1]
    /\ \E r \in 1..4 : df_benchmark_total_sorted.data[r][1] =
                           df_benchmark_total_sorted.data[r + 1][1]

\* the four averaged tables, those in the set S replaced by their sorted
\* copies, summed in the order p
Rearranged(S, p) ==
    [i \in 1..4 |-> IF p[i] \in S THEN df_benchmark_sorted[p[i]] ELSE df_benchmark[p[i]]]

\* the average of the four tables, those in the set S replaced by their sorted
\* copies, summed in the order p, has the labels and the cells of the
\* notebook's average
SameAverage(S, p) ==
    LET t == divide(SumTables(Rearranged(S, p)), 4)
    IN  /\ {t.index[r] : r \in 1..Len(t.index)} =
               {df_benchmark_total.index[r] : r \in 1..Len(df_benchmark_total.index)}
        /\ Len(t.index) = 5
        /\ t.divisor = df_benchmark_total.divisor
        /\ \A r \in 1..5 : \A c \in 1..3 :
              Row(t, rows_name[r])[c] = Row(df_benchmark_total, rows_name[r])[c]

\* C19: whichever of the four tables are replaced by their sorted copies, and
\* in whichever order the four are summed (all unsorted, or the second and the
\* fourth summand sorted), the average has the same five labels and the same
\* value in every (label, column) cell as the notebook's average (compared
\* right after line 720 has computed it).
C19_AverageOrderInsensitive ==
    nbpc = "sort_total" =>
        /\ \A S \in SUBSET (1..4) : SameAverage(S, [i \in 1..4 |-> i])
        /\ \A p \in Permutations(1..4) :
              SameAverage({}, p) /\ SameAverage({p[2], p[4]}, p)

\* C19 witness: an average of four tables of which one has a sorted copy in
\* another row order and two differ from each other.
C19_Witness ==
    /\ nbpc = "sort_total"
    /\ \E i \in 1..4 : df_benchmark_sorted[i].index # df_benchmark[i].index
    /\ \E i, j \in 1..4 : df_benchmark[i].data # df_benchmark[j].data
    /\ \E i \in 1..4 : df_benchmark_sorted[i].index = df_benchmark[i].index

\* C20 (as claimed): the mean and the spread an evaluation of ml_benchmark
\* returns are the same whatever state the evaluations before it left behind,
\* the state of the global random generator included.
C20_IndependentOfEarlierEvaluations ==
    (k > 0 /\ pc = "ret") =>
        \A g \in 0..MaxRng :
            LET r == lib[Key(model, X_dataset, y_dataset, cv, g)]
            IN  /\ r.ok
                /\ part_l[1] = mean(r.scores)
                /\ part_l[2] = std2(r.scores)

\* the largest and the smallest mean score of a table
HighestMean(df) ==
    CHOOSE v \in {df.data[r][1] : r \in 1..Len(df.data)} :
        \A r \in 1..Len(df.data) : df.data[r][1] <= v

LowestMean(df) ==
    CHOOSE v \in {df.data[r][1] : r \in 1..Len(df.data)} :
        \A r \in 1..Len(df.data) : df.data[r][1] >= v

\* perc_inc is the percentage increase from the lowest to the highest mean
\* score of the table src, read off the first and the last row of its sorted
\* copy
IncreaseOf(src, sorted) ==
    LET hi == HighestMean(src)
        lo == LowestMean(src)
    IN  /\ sorted.data[1][1] = hi
        /\ sorted.data[Len(sorted.data)][1] = lo
        /\ lo > 0 =>
              /\ perc_inc.kind = "finite"
              /\ perc_inc.value >= 0
              /\ 2 * perc_inc.value * lo - lo <= 2 * 100 * 100 * (hi - lo)
              /\ 2 * 100 * 100 * (hi - lo) <= 2 * perc_inc.value * lo + lo
        /\ lo = 0 =>
              /\ perc_inc.kind \in {"inf", "nan"}
              /\ perc_inc.kind = "inf" <=> hi > 0

\* C21: each percentage increase of the notebook is computed from the first
\* and the last row of a table sorted by descending mean, which hold the highest
\* and the lowest mean of that table whichever classifiers they belong to; it is
\* the rounded value of 100 * (highest - lowest) / lowest and is not negative
\* when the lowest mean is positive, and when the lowest mean is 0 the division
\* is by zero and the result is not a finite number.
C21_IncreaseFromLowestToHighest ==
    /\ nbpc = "perc_inc_large" => IncreaseOf(df_benchmark_total, df_benchmark_total_sorted)
    /\ nbpc = "end" => IncreaseOf(df_benchmark[5], df_benchmark_sorted[5])

\* C21 witness: the increase computed on the large dataset's table with a
\* lowest mean of 0, the first row not being XGBoost's, after the increase on
\* the average table was computed from rows other than the two the printed
\* sentence names.
C21_Witness ==
    /\ nbpc = "end"
    /\ perc_inc.kind = "inf"
    /\ df_benchmark_sorted[5].data[5][1] = 0
    /\ df_benchmark_sorted[5].index[1] # "XGBoost"
    /\ df_benchmark_total_sorted.data[5][1] > 0
    /\ df_benchmark_total_sorted.index[1] # "XGBoost"
    /\ df_benchmark_total_sorted.index[5] # "DecisionTreeClassifier"

====
